---------------------------- MODULE Spec2Model ----------------------------
(***************************************************************************)
(* A model of sdks/python/apache_beam/runners/portability/                 *)
(* local_job_service.py: one BeamJob (state history, state fan-out, the    *)
(* background run sequence, cancel, the two streams) and its JobLogQueues  *)
(* (bounded log cache and log fan-out).                                    *)
(*                                                                         *)
(* Threads are pairs <<role, n>>: the request thread that calls run(), the *)
(* background thread started by run(), request threads that call cancel()  *)
(* and request threads that serve get_state_stream / get_message_stream.   *)
(* Every step between two points where another thread can observe or       *)
(* change shared state is one action.                                      *)
(*                                                                         *)
(* Further parts, each with a specification of its own: the dependency     *)
(* sets of the pipeline's environments (_extract_dependency_sets,          *)
(* _update_dependency_sets), LocalJobServicer.GetJobMetrics,               *)
(* SubprocessSdkWorker.run, and the JobLogHandlers of several Jobs on the  *)
(* process-wide root logger.                                               *)
(*                                                                         *)
(* AbstractBeamJob (set_state's history guard, is_terminal_state,          *)
(* with_state_history) is not part of the sources at hand; it is modelled  *)
(* from the specification text (section 4.1). The same holds for           *)
(* environments.expand_anyof_environments and AnyOfEnvironment.create_proto*)
(* (section 4.2), monitoring_infos.is_user_monitoring_info (section 4.5)   *)
(* and worker_handlers.SUBPROCESS_LOCK (section 4.3).                      *)
(***************************************************************************)
EXTENDS Integers, Sequences, FiniteSets, TLC

\* ------------------------------------------------------------------ bounds
\* records given to JobLogQueues.put in the log-only specification
MaxPuts == 12
\* recorded transitions in the specification of direct set_state calls
MaxHistory == 2

\* ------------------------------------------------------------- constants
\* JobLogQueues._cache_size
CacheSize == 10
\* beam_job_api_pb2.JobMessage importance levels produced by LOG_LEVEL_MAP
JOB_MESSAGE_DEBUG == 1
JOB_MESSAGE_BASIC == 3
JOB_MESSAGE_WARNING == 4
JOB_MESSAGE_ERROR == 5

VARIABLES
  state_history,   \* AbstractBeamJob: sequence of [state, ts, by]
  state,           \* AbstractBeamJob: the current state
  state_queues,    \* BeamJob._state_queues: sequence of queue owners
  log_queues,      \* JobLogQueues._queues: sequence of queue owners
  cache,           \* JobLogQueues._cache: sequence of log records
  last_id,         \* JobLogHandler._last_id
  logged_thread,   \* JobLogHandler._logged_thread
  result,          \* BeamJob.result
  queue,           \* per subscriber: every item put on its queue.Queue
  head,            \* per subscriber: how many items it has taken from it
  snap,            \* per subscriber: the replay part of its stream
  snapPos,         \* per subscriber: how many replay items it has yielded
  pc,              \* per thread: position in its code
  ss,              \* per set_state caller: locals of the running call
  msg,             \* the record last handed to JobLogQueues.put
  outcome,         \* what the external calls of _run_job did
  t0,              \* per cancel() call: Len(state_history) when it began
  envs,            \* _pipeline_proto.components.environments
  dependency_sets, \* what create_beam_job registered with the artifact service
  resolved,        \* what resolved_deps last returned
  response,        \* per metrics request thread: what GetJobMetrics did
  worker,          \* per SubprocessSdkWorker.run call: its locals and position
  SUBPROCESS_LOCK, \* worker_handlers.SUBPROCESS_LOCK: its holder
  jobs,            \* per concurrent Job: its background thread and log handler
  root_handlers,   \* logging.getLogger().handlers: the Jobs whose handler is on it
  emitted          \* the log call last made: its thread and importance

\* the state of the one BeamJob and its JobLogQueues
beamVars == <<state_history, state, state_queues, log_queues, cache, last_id,
              logged_thread, result, queue, head, snap, snapPos, pc, ss,
              msg, outcome, t0>>

depVars == <<envs, dependency_sets, resolved>>
workerVars == <<worker, SUBPROCESS_LOCK>>
handlerVars == <<jobs, root_handlers, emitted>>

\* the state of the parts that have a specification of their own
extVars == <<depVars, response, workerVars, handlerVars>>

vars == <<state_history, state, state_queues, log_queues, cache, last_id,
          logged_thread, result, queue, head, snap, snapPos, pc, ss,
          msg, outcome, t0, extVars>>

jobVars == <<state_history, state, state_queues, result, outcome, t0, ss>>
logVars == <<log_queues, cache, last_id, msg>>
subVars == <<queue, head, snap, snapPos>>

\* ---------------------------------------------------------------- threads
RUN == <<"run", 0>>
BG == <<"bg", 0>>
\* request threads that call cancel() (each calls it once)
Cancellers == {<<"cancel", 1>>, <<"cancel", 2>>}
\* request threads that serve a state or message stream (one stream each)
Subscribers == {<<"sub", 1>>, <<"sub", 2>>}
Callers == {RUN, BG} \cup Cancellers
Threads == Callers \cup Subscribers
NoThread == <<"none", 0>>

\* ----------------------------------------------------------------- helpers
Last(s) == s[Len(s)]

Range(s) == {s[i] : i \in 1..Len(s)}

RemoveAt(s, k) == SubSeq(s, 1, k - 1) \o SubSeq(s, k + 1, Len(s))

Min(S) == CHOOSE x \in S : \A y \in S : x <= y

\* a state event as put on a queue and yielded: the tuple (state, timestamp)
StateEvent(st, ts) ==
  [kind |-> "state", state |-> st, ts |-> ts, id |-> <<>>, importance |-> 0]

\* str(n) of line 442: the decimal digits of n, most significant first
RECURSIVE str(_)
str(n) == IF n < 10 THEN <<n>> ELSE str(n \div 10) \o <<n % 10>>

\* a JobMessage (text and wall-clock time are not modelled)
JobMessage(message_id, importance) ==
  [kind |-> "log", state |-> "", ts |-> 0, id |-> message_id,
   importance |-> importance]

\* the events of the history, as with_state_history yields them
HistoryEvents(h) == [i \in 1..Len(h) |-> StateEvent(h[i].state, h[i].ts)]

HistoryStates(h) == [i \in 1..Len(h) |-> h[i].state]

\* --------------------------------------------------------- AbstractBeamJob
TerminalStates == {"DONE", "FAILED", "CANCELLED"}

is_terminal_state(s) == s \in TerminalStates

\* Timestamp.now(): a logical clock that ticks with every recorded transition
Now == Len(state_history) + 1

\* AbstractBeamJob.set_state: the history guard. The timestamp it returns is
\* 0 for None.
base_set_state(t) ==
  IF ss[t].new # state
    THEN /\ state_history' =
              Append(state_history, [state |-> ss[t].new, ts |-> Now, by |-> t])
         /\ state' = ss[t].new
    ELSE UNCHANGED <<state_history, state>>

base_timestamp(t) == IF ss[t].new # state THEN Now ELSE 0

\* PipelineResult.pipeline_state_to_runner_api_state: the engine's reported
\* state as a JobState
EngineStates == {"done", "failed"}

pipeline_state_to_runner_api_state(s) ==
  CASE s = "done" -> "DONE"
    [] s = "failed" -> "FAILED"

\* ------------------------------------------------------------ JobLogQueues
Levels == {JOB_MESSAGE_DEBUG, JOB_MESSAGE_BASIC, JOB_MESSAGE_ERROR}

\* the index of the first cached record of importance lvl (the enumerate loop)
FirstIndexOf(c, lvl) ==
  Min({i \in 1..Len(c) : c[i].importance = lvl})

\* mutant of put_cache: a record is admitted to a full cache only if its
\* importance is above the cached minimum
put_cache_strict(c, m) ==
  IF Len(c) < CacheSize
    THEN Append(c, m)
    ELSE LET min_level == Min({c[i].importance : i \in 1..Len(c)})
         IN IF m.importance > min_level
              THEN LET c2 == Append(c, m)
                   IN RemoveAt(c2, FirstIndexOf(c2, min_level))
              ELSE c

\* mutant of put_cache: a record admitted to a full cache evicts nothing
put_cache_grow(c, m) ==
  IF Len(c) < CacheSize
    THEN Append(c, m)
    ELSE LET min_level == Min({c[i].importance : i \in 1..Len(c)})
         IN IF m.importance >= min_level THEN Append(c, m) ELSE c

\* JobLogQueues.put, the cache part: the cache after put(m)
put_cache(c, m) ==
  IF Len(c) < CacheSize
    THEN Append(c, m)
    ELSE LET min_level == Min({c[i].importance : i \in 1..Len(c)})
         IN IF m.importance >= min_level
              THEN LET c2 == Append(c, m)
                   IN RemoveAt(c2, FirstIndexOf(c2, min_level))
              ELSE c

\* mutant of put_queues: only a record the cache keeps is fanned out
put_queues_cached(q, m) ==
  [s \in Subscribers |->
     IF s \in Range(log_queues) /\ m \in Range(put_cache(cache, m))
       THEN Append(q[s], m) ELSE q[s]]

\* JobLogQueues.put, the fan-out part: every registered queue gets m
put_queues(q, m) ==
  [s \in Subscribers |->
     IF s \in Range(log_queues) THEN Append(q[s], m) ELSE q[s]]

\* JobLogQueues.put(msg) under its lock, with msg built from _next_id()
put(importance) ==
  LET m == JobMessage(str(last_id + 1), importance)
  IN /\ last_id' = last_id + 1
     /\ msg' = m
     /\ cache' = put_cache(cache, m)
     /\ queue' = put_queues(queue, m)

\* JobLogHandler.emit(record) called on thread t: only the logged thread's
\* records are captured
emit(t, importance) ==
  IF logged_thread = t
    THEN put(importance)
    ELSE UNCHANGED <<last_id, msg, cache, queue>>

\* ------------------------------------------------- the dependency sets
\* alternatives of a composite environment in the pipelines considered
MaxAlternatives == 2

EnvIds == {"e1", "e2"}

\* an ArtifactInformation: a reference the client left to be resolved, or
\* the file the artifact service staged for dependency key k
Deferred(name) == [type_urn |-> "deferred", name |-> name, key |-> <<"", 0>>]

File(k) == [type_urn |-> "file", name |-> "", key |-> k]

\* the dependency lists environments come with
DependencyLists == {<<>>, <<Deferred("a"), Deferred("b")>>}

ANYOF == "beam:env:anyof:v1"

\* the urn of the concrete alternative at position ix
ConcreteUrn(ix) == IF ix = 1 THEN "beam:env:docker:v1" ELSE "beam:env:process:v1"

\* a concrete (non-composite) Environment proto
Environment(urn, dependencies) ==
  [urn |-> urn, dependencies |-> dependencies, environments |-> <<>>]

\* AnyOfEnvironment.create_proto: the composite wrapping the alternatives in
\* the order given
create_proto(environments) ==
  [urn |-> ANYOF, dependencies |-> <<>>, environments |-> environments]

\* environments.expand_anyof_environments: the ordered concrete alternatives
\* of a composite, or the environment itself
expand_anyof_environments(env) ==
  IF env.urn = ANYOF THEN env.environments ELSE <<env>>

\* the environments a pipeline may define under one id
Environments ==
  {Environment(ConcreteUrn(1), d) : d \in DependencyLists}
    \cup UNION {{create_proto([ix \in 1..n |->
                                Environment(ConcreteUrn(ix), d[ix])]) :
                    d \in [1..n -> DependencyLists]} :
                 n \in 1..MaxAlternatives}

\* the keys (env_id, ix) of lines 467-469: ix counts from 0 in expansion order
DependencyKeys(es) ==
  {<<env_id, ix>> \in (DOMAIN es) \X (0..(MaxAlternatives - 1)) :
     ix < Len(expand_anyof_environments(es[env_id]))}

\* _extract_dependency_sets
extract_dependency_sets(es) ==
  [k \in DependencyKeys(es) |->
     expand_anyof_environments(es[k[1]])[k[2] + 1].dependencies]

\* mutant of update_dependency_sets: every alternative of an environment is
\* given the dependencies resolved for its first alternative
update_dependency_sets_first(es, resolved_deps) ==
  [env_id \in DOMAIN es |->
     LET subs == expand_anyof_environments(es[env_id])
         new_envs == [ix \in 1..Len(subs) |->
                        [subs[ix] EXCEPT
                           !.dependencies = resolved_deps[<<env_id, 0>>]]]
     IN IF Len(new_envs) = 1 THEN new_envs[1] ELSE create_proto(new_envs)]

\* _update_dependency_sets: the environments after the call
update_dependency_sets(es, resolved_deps) ==
  [env_id \in DOMAIN es |->
     LET subs == expand_anyof_environments(es[env_id])
         new_envs == [ix \in 1..Len(subs) |->
                        [subs[ix] EXCEPT
                           !.dependencies = resolved_deps[<<env_id, ix - 1>>]]]
     IN IF Len(new_envs) = 1 THEN new_envs[1] ELSE create_proto(new_envs)]

\* artifact_service.resolved_deps when it returns: for every registered key
\* either the list as registered or the file staged for that key
Resolutions(registered) ==
  {[k \in DOMAIN registered |->
      IF k \in K THEN <<File(k)>> ELSE registered[k]] :
     K \in SUBSET DOMAIN registered}

\* lines 97-100: create_beam_job registers the dependency sets extracted
\* from the pipeline's environments; the Job is constructed
create_beam_job(t) ==
  /\ pc[t] = "create_beam_job"
  /\ dependency_sets' = extract_dependency_sets(envs)
  /\ pc' = [pc EXCEPT ![t] = "idle"]
  /\ UNCHANGED <<jobVars, logVars, logged_thread, subVars, envs, resolved,
                 response, workerVars, handlerVars>>

\* ------------------------------------------------------- BeamJob.set_state
\* the call: new_state is bound and control enters set_state; ret is where
\* the caller continues
Call(t, new_state, ret) ==
  /\ pc' = [pc EXCEPT ![t] = "set_state"]
  /\ ss' = [ss EXCEPT ![t] = [new |-> new_state, ts |-> 0, ix |-> 1,
                              ret |-> ret]]

\* the locals of set_state while no call is running
NoCall == [new |-> "UNSET", ts |-> 0, ix |-> 1, ret |-> "idle"]

\* mutant of notify: consumers are informed after every set_state
notify_always(timestamp) == TRUE

\* line 272: consumers are informed only if a timestamp came back
notify(timestamp) == timestamp # 0

\* lines 271-272: timestamp = super().set_state(new_state); if timestamp ...
SetStateBase(t) ==
  /\ pc[t] = "set_state"
  /\ base_set_state(t)
  /\ IF notify(base_timestamp(t))
       THEN /\ ss' = [ss EXCEPT ![t].ts = base_timestamp(t)]
            /\ pc' = [pc EXCEPT ![t] = "fanout"]
       ELSE /\ ss' = [ss EXCEPT ![t] = NoCall]
            /\ pc' = [pc EXCEPT ![t] = ss[t].ret]
  /\ UNCHANGED <<state_queues, result, outcome, t0, logVars, logged_thread,
                 subVars>>
  /\ UNCHANGED extVars

\* mutant of fanout_put: the first registered queue gets every event
fanout_put_first(q, owner, event) ==
  [q EXCEPT ![state_queues[1]] = Append(@, event)]

\* the queue update of one iteration of the loop of lines 274-275
fanout_put(q, owner, event) == [q EXCEPT ![owner] = Append(@, event)]

\* lines 274-275: one iteration of the loop over self._state_queues, or its
\* end. The list iterator sees queues appended while the loop runs.
SetStateFanout(t) ==
  /\ pc[t] = "fanout"
  /\ IF ss[t].ix <= Len(state_queues)
       THEN /\ queue' = fanout_put(queue, state_queues[ss[t].ix],
                                   StateEvent(ss[t].new, ss[t].ts))
            /\ ss' = [ss EXCEPT ![t].ix = @ + 1]
            /\ UNCHANGED pc
       ELSE /\ pc' = [pc EXCEPT ![t] = ss[t].ret]
            /\ ss' = [ss EXCEPT ![t] = NoCall]
            /\ UNCHANGED queue
  /\ UNCHANGED <<state_history, state, state_queues, result, outcome, t0,
                 logVars, logged_thread, head, snap, snapPos>>
  /\ UNCHANGED extVars

\* ------------------------------------------------------------- BeamJob.run
\* line 284: run() starts with set_state(STARTING)
run(t) ==
  /\ pc[t] = "idle"
  /\ Call(t, "STARTING", "start_thread")
  /\ UNCHANGED <<state_history, state, state_queues, result, outcome, t0,
                 logVars, logged_thread, subVars>>
  /\ UNCHANGED extVars

\* lines 285-286: the background thread is created and started
StartThread(t) ==
  /\ pc[t] = "start_thread"
  /\ pc' = [pc EXCEPT ![t] = "returned", ![BG] = "enter"]
  /\ UNCHANGED <<jobVars, logVars, logged_thread, subVars>>
  /\ UNCHANGED extVars

\* -------------------------------------------------------- BeamJob._run_job
\* line 289 and JobLogHandler.__enter__: the handler binds to this thread
Enter(t) ==
  /\ pc[t] = "enter"
  /\ logged_thread' = t
  /\ pc' = [pc EXCEPT ![t] = "update_dependencies"]
  /\ UNCHANGED <<jobVars, logVars, subVars>>
  /\ UNCHANGED extVars

\* mutant of after_update_dependencies: a timeout is not swallowed
after_update_dependencies_strict(o) == IF o = "ok" THEN "merge" ELSE "exit"

\* where _run_job continues after _update_dependencies: a timeout is
\* swallowed (line 326), any other exception leaves the with block
after_update_dependencies(o) ==
  IF o \in {"ok", "timeout"} THEN "merge" ELSE "exit"

\* line 290 and _update_dependencies: resolved_deps returns, times out or
\* raises something else. Its result is evaluated before
\* _update_dependency_sets is entered, so the environments are rewritten
\* only if it returns.
UpdateDependencies(t) ==
  /\ pc[t] = "update_dependencies"
  /\ \E o \in {"ok", "timeout", "error"} :
       /\ outcome' = [outcome EXCEPT !.deps = o]
       /\ pc' = [pc EXCEPT ![t] = after_update_dependencies(o)]
       /\ IF o = "ok"
            THEN \E r \in Resolutions(dependency_sets) :
                   /\ resolved' = r
                   /\ envs' = update_dependency_sets(envs, r)
            ELSE UNCHANGED <<envs, resolved>>
  /\ UNCHANGED <<state_history, state, state_queues, result, t0, ss, logVars,
                 logged_thread, subVars, dependency_sets, response,
                 workerVars, handlerVars>>

\* mutant of invoke_runner: the engine is invoked without set_state(RUNNING)
invoke_runner_no_state(t) ==
  /\ pc' = [pc EXCEPT ![t] = "run_via_runner_api"]
  /\ UNCHANGED ss

\* lines 294, 314-315: _invoke_runner is entered; its first statement is
\* set_state(RUNNING), after which the engine is invoked
invoke_runner(t) == Call(t, "RUNNING", "run_via_runner_api")

\* line 291: merge_compatible_environments returns or raises; it is outside
\* the try block. On success control reaches _invoke_runner.
Merge(t) ==
  /\ pc[t] = "merge"
  /\ \E o \in {"ok", "error"} :
       /\ outcome' = [outcome EXCEPT !.merge = o]
       /\ IF o = "ok"
            THEN invoke_runner(t)
            ELSE /\ pc' = [pc EXCEPT ![t] = "exit"]
                 /\ UNCHANGED ss
  /\ UNCHANGED <<state_history, state, state_queues, result, t0, logVars,
                 logged_thread, subVars>>
  /\ UNCHANGED extVars

\* lines 294, 316-318: the engine is invoked; self.result is assigned only
\* if it returns
RunViaRunnerApi(t) ==
  /\ pc[t] = "run_via_runner_api"
  /\ \/ /\ result' = "handle"
        /\ outcome' = [outcome EXCEPT !.engine = "invoked"]
        /\ pc' = [pc EXCEPT ![t] = "wait_until_finish"]
     \/ /\ outcome' = [outcome EXCEPT !.engine = "raised"]
        /\ pc' = [pc EXCEPT ![t] = "except"]
        /\ UNCHANGED result
  /\ UNCHANGED <<state_history, state, state_queues, t0, ss, logVars,
                 logged_thread, subVars>>
  /\ UNCHANGED extVars

\* line 295: wait_until_finish returns with the engine's state, or raises
WaitUntilFinish(t) ==
  /\ pc[t] = "wait_until_finish"
  /\ \/ \E s \in EngineStates :
          /\ outcome' = [outcome EXCEPT !.engine = s]
          /\ pc' = [pc EXCEPT ![t] = "completed"]
     \/ /\ outcome' = [outcome EXCEPT !.engine = "raised"]
        /\ pc' = [pc EXCEPT ![t] = "except"]
  /\ UNCHANGED <<state_history, state, state_queues, result, t0, ss, logVars,
                 logged_thread, subVars>>
  /\ UNCHANGED extVars

\* lines 296-302: _LOGGER.info reaches the handler when INFO is enabled for
\* the logger; then set_state(mapped engine state)
Completed(t) ==
  /\ pc[t] = "completed"
  /\ \/ emit(t, JOB_MESSAGE_BASIC)
     \/ UNCHANGED <<last_id, msg, cache, queue>>
  /\ Call(t, pipeline_state_to_runner_api_state(outcome.engine), "exit")
  /\ UNCHANGED <<state_history, state, state_queues, result, outcome, t0,
                 log_queues, logged_thread, head, snap, snapPos>>
  /\ UNCHANGED extVars

\* lines 304-309: the traceback is put as an error record
Except(t) ==
  /\ pc[t] = "except"
  /\ put(JOB_MESSAGE_ERROR)
  /\ pc' = [pc EXCEPT ![t] = "log_exception"]
  /\ UNCHANGED <<jobVars, log_queues, logged_thread, head, snap, snapPos>>
  /\ UNCHANGED extVars

\* lines 310-311: _LOGGER.exception reaches the handler at level ERROR; then
\* set_state(FAILED)
LogException(t) ==
  /\ pc[t] = "log_exception"
  /\ emit(t, JOB_MESSAGE_ERROR)
  /\ Call(t, "FAILED", "exit")
  /\ UNCHANGED <<state_history, state, state_queues, result, outcome, t0,
                 log_queues, logged_thread, head, snap, snapPos>>
  /\ UNCHANGED extVars

\* JobLogHandler.__exit__: the binding is released; the thread ends (by
\* return, or with the exception re-raised at line 312)
Exit(t) ==
  /\ pc[t] = "exit"
  /\ logged_thread' = NoThread
  /\ pc' = [pc EXCEPT ![t] = "done"]
  /\ UNCHANGED <<jobVars, logVars, subVars>>
  /\ UNCHANGED extVars

\* ---------------------------------------------------------- BeamJob.cancel
\* mutant of cancel_guard: cancel() acts whatever the state
cancel_guard_always(s) == TRUE

\* line 332: the test that lets cancel() act
cancel_guard(s) == ~is_terminal_state(s)

\* lines 332-333: the test of the current state, then set_state(CANCELLING)
cancel(t) ==
  /\ pc[t] = "idle"
  /\ t0' = [t0 EXCEPT ![t] = Len(state_history)]
  /\ IF cancel_guard(state)
       THEN Call(t, "CANCELLING", "cancel2")
       ELSE /\ pc' = [pc EXCEPT ![t] = "skipped"]
            /\ UNCHANGED ss
  /\ UNCHANGED <<state_history, state, state_queues, result, outcome,
                 logVars, logged_thread, subVars>>
  /\ UNCHANGED extVars

\* line 335: set_state(CANCELLED)
Cancel2(t) ==
  /\ pc[t] = "cancel2"
  /\ Call(t, "CANCELLED", "cancelled")
  /\ UNCHANGED <<state_history, state, state_queues, result, outcome, t0,
                 logVars, logged_thread, subVars>>
  /\ UNCHANGED extVars

\* cancel() returns, after the second set_state or with the test failed
CancelReturn(t) ==
  /\ pc[t] \in {"cancelled", "skipped"}
  /\ pc' = [pc EXCEPT ![t] = "done"]
  /\ t0' = [t0 EXCEPT ![t] = 0]
  /\ UNCHANGED <<state_history, state, state_queues, result, outcome, ss,
                 logVars, logged_thread, subVars>>
  /\ UNCHANGED extVars

\* ------------------------------------------------------------ the streams
\* lines 339-340: get_state_stream registers its queue for state events
GetStateStream(s) ==
  /\ pc[s] = "idle"
  /\ state_queues' = Append(state_queues, s)
  /\ pc' = [pc EXCEPT ![s] = "history"]
  /\ UNCHANGED <<state_history, state, result, outcome, t0, ss, logVars,
                 logged_thread, queue, head, snap, snapPos>>
  /\ UNCHANGED extVars

\* lines 349-350 and JobLogQueues.append: get_message_stream registers its
\* queue for log records
GetMessageStream(s) ==
  /\ pc[s] = "idle"
  /\ log_queues' = Append(log_queues, s)
  /\ pc' = [pc EXCEPT ![s] = "register_state"]
  /\ UNCHANGED <<jobVars, cache, last_id, msg, logged_thread, subVars>>
  /\ UNCHANGED extVars

\* line 351: the same queue is registered for state events
RegisterState(s) ==
  /\ pc[s] = "register_state"
  /\ state_queues' = Append(state_queues, s)
  /\ pc' = [pc EXCEPT ![s] = "cache"]
  /\ UNCHANGED <<state_history, state, result, outcome, t0, ss, logVars,
                 logged_thread, queue, head, snap, snapPos>>
  /\ UNCHANGED extVars

\* line 353 and JobLogQueues.cache: the copy of the cache that is replayed
CacheSnapshot(s) ==
  /\ pc[s] = "cache"
  /\ snap' = [snap EXCEPT ![s] = cache]
  /\ pc' = [pc EXCEPT ![s] = "history"]
  /\ UNCHANGED <<jobVars, logVars, logged_thread, queue, head, snapPos>>
  /\ UNCHANGED extVars

\* lines 344 and 355-360: the stream ends after a terminal state event
stream_ends(item) == item.kind = "state" /\ is_terminal_state(item.state)

\* how many items of the replay r are yielded: all of them, or those up to
\* and including the first that ends the stream
ReplayLen(r) ==
  IF \E i \in 1..Len(r) : stream_ends(r[i])
    THEN Min({i \in 1..Len(r) : stream_ends(r[i])})
    ELSE Len(r)

\* with_state_history (lines 342, 354): the history recorded so far is
\* chained before the queue. The replayed items are then yielded one by one;
\* these iterations read nothing shared, so they are part of this step.
WithStateHistory(s) ==
  LET r == snap[s] \o HistoryEvents(state_history)
  IN /\ pc[s] = "history"
     /\ snap' = [snap EXCEPT ![s] = r]
     /\ snapPos' = [snapPos EXCEPT ![s] = ReplayLen(r)]
     /\ pc' = [pc EXCEPT ![s] =
                 IF ReplayLen(r) < Len(r) \/ (r # <<>> /\ stream_ends(Last(r)))
                   THEN "done" ELSE "iterate"]
     /\ UNCHANGED <<jobVars, logVars, logged_thread, queue, head>>
     /\ UNCHANGED extVars

\* the next iteration of the for loop once the replay is exhausted: the next
\* item of the queue is taken (q.get blocks while the queue is empty) and
\* yielded
Yield(s) ==
  /\ pc[s] = "iterate"
  /\ head[s] < Len(queue[s])
  /\ head' = [head EXCEPT ![s] = @ + 1]
  /\ pc' = [pc EXCEPT ![s] =
       IF stream_ends(queue[s][head[s] + 1]) THEN "done" ELSE "iterate"]
  /\ UNCHANGED <<jobVars, logVars, logged_thread, queue, snap, snapPos>>
  /\ UNCHANGED extVars

\* everything subscriber s has yielded so far, in order
Yielded(s) == SubSeq(snap[s], 1, snapPos[s]) \o SubSeq(queue[s], 1, head[s])

\* ------------------------------------------ LocalJobServicer.GetJobMetrics
\* GetJobMetrics requests served
MaxRequests == 2
\* entries of the engine's monitoring data
MaxInfos == 2

\* the request thread that serves GetJobMetrics
METRICS == <<"metrics", 0>>

\* self._jobs holds the one Job of this model under "job1"
JobIds == {"job1", "job2"}

RegisteredJobs == {"job1"}

\* monitoring infos: a user metric and a system metric
USER_INFO == [urn |-> "beam:metric:user:sum_int64:v1"]

SYSTEM_INFO == [urn |-> "beam:metric:element_count:v1"]

\* what result.monitoring_infos() may return
MonitoringInfoLists ==
  UNION {[1..n -> {USER_INFO, SYSTEM_INFO}] : n \in 0..MaxInfos}

\* monitoring_infos.is_user_monitoring_info
is_user_monitoring_info(x) == x = USER_INFO

\* mutant of monitoring_info_list: the engine is asked whatever the result
monitoring_info_list_always(r, infos) == infos

\* lines 159-163: empty while the Job has no result, else the engine's data
monitoring_info_list(r, infos) == IF r = "None" THEN <<>> ELSE infos

\* lines 166-169: the user metrics, in order
user_monitoring_info_list(infos) == SelectSeq(infos, is_user_monitoring_info)

NoResponse ==
  [calls |-> 0, job_id |-> "", error |-> "None", engine |-> <<>>,
   committed |-> <<>>]

\* GetJobMetrics(request): LookupError for a job_id that is not in
\* self._jobs, else the response built from the Job's result; infos is what
\* the engine reports if it is asked
GetJobMetrics(t) ==
  /\ response.calls < MaxRequests
  /\ \E job_id \in JobIds, infos \in MonitoringInfoLists :
       response' =
         IF job_id \notin RegisteredJobs
           THEN [calls |-> response.calls + 1, job_id |-> job_id,
                 error |-> "LookupError", engine |-> <<>>, committed |-> <<>>]
           ELSE [calls |-> response.calls + 1, job_id |-> job_id,
                 error |-> "None",
                 engine |-> monitoring_info_list(result, infos),
                 committed |-> user_monitoring_info_list(
                                 monitoring_info_list(result, infos))]
  /\ UNCHANGED <<jobVars, logVars, logged_thread, subVars, pc, depVars,
                 workerVars, handlerVars>>

\* ------------------------------------------------ SubprocessSdkWorker.run
\* the threads that each launch one worker
Workers == {1, 2}

NoWorker == 0

\* exit codes of the child
ExitCodes == {0, 1}

\* the locals of run() before the call
NotLaunched ==
  [pc |-> "idle", logging_server |-> "none", p |-> "none", returncode |-> -1,
   alive |-> FALSE, raised |-> "none"]

\* lines 194-218: the logging server is created and started, the descriptors
\* and the child's environment are built
StartLoggingServer(w) ==
  /\ worker[w].pc = "idle"
  /\ worker' = [worker EXCEPT ![w].logging_server = "started",
                              ![w].pc = "acquire"]
  /\ UNCHANGED SUBPROCESS_LOCK
  /\ UNCHANGED <<beamVars, depVars, response, handlerVars>>

\* mutant of lock_free: the lock can be taken while it is held
lock_free_always(holder) == TRUE

\* line 220: the with statement blocks until the lock is free
lock_free(holder) == holder = NoWorker

\* line 220: the lock is acquired
Acquire(w) ==
  /\ worker[w].pc = "acquire"
  /\ lock_free(SUBPROCESS_LOCK)
  /\ SUBPROCESS_LOCK' = w
  /\ worker' = [worker EXCEPT ![w].pc = "popen"]
  /\ UNCHANGED <<beamVars, depVars, response, handlerVars>>

\* line 221: subprocess.Popen starts the child, or raises
Popen(w) ==
  /\ worker[w].pc = "popen"
  /\ \/ worker' = [worker EXCEPT ![w].p = "running", ![w].pc = "release"]
     \/ worker' = [worker EXCEPT ![w].raised = "Popen", ![w].pc = "release"]
  /\ UNCHANGED SUBPROCESS_LOCK
  /\ UNCHANGED <<beamVars, depVars, response, handlerVars>>

\* the end of the with statement: the lock is released; an exception of
\* Popen leaves run() here, before the try statement
Release(w) ==
  /\ worker[w].pc = "release"
  /\ SUBPROCESS_LOCK' = NoWorker
  /\ worker' = [worker EXCEPT ![w].pc =
                  IF worker[w].raised = "Popen" THEN "raised" ELSE "wait"]
  /\ UNCHANGED <<beamVars, depVars, response, handlerVars>>

\* the child process ends by itself with some exit code
ChildExits(w) ==
  /\ worker[w].p = "running"
  /\ \E code \in ExitCodes :
       worker' = [worker EXCEPT ![w].p = "exited", ![w].returncode = code]
  /\ UNCHANGED SUBPROCESS_LOCK
  /\ UNCHANGED <<beamVars, depVars, response, handlerVars>>

\* lines 223-226: p.wait() returns once the child has ended, and a non-zero
\* return code is raised as RuntimeError; or p.wait() raises
Wait(w) ==
  /\ worker[w].pc = "wait"
  /\ \/ /\ worker[w].p = "exited"
        /\ worker' = [worker EXCEPT
                        ![w].raised = IF worker[w].returncode # 0
                                        THEN "RuntimeError" ELSE "none",
                        ![w].pc = "poll"]
     \/ worker' = [worker EXCEPT ![w].raised = "wait", ![w].pc = "poll"]
  /\ UNCHANGED SUBPROCESS_LOCK
  /\ UNCHANGED <<beamVars, depVars, response, handlerVars>>

\* line 228: p.poll() tells whether the child is still alive
Poll(w) ==
  /\ worker[w].pc = "poll"
  /\ worker' = [worker EXCEPT ![w].alive = (worker[w].p = "running"),
                              ![w].pc = "kill"]
  /\ UNCHANGED SUBPROCESS_LOCK
  /\ UNCHANGED <<beamVars, depVars, response, handlerVars>>

\* line 229: p.kill() if it was; a child that has ended meanwhile is left
Kill(w) ==
  /\ worker[w].pc = "kill"
  /\ worker' = [worker EXCEPT
                  ![w].p = IF worker[w].alive /\ worker[w].p = "running"
                             THEN "killed" ELSE @,
                  ![w].alive = FALSE,
                  ![w].pc = "stop"]
  /\ UNCHANGED SUBPROCESS_LOCK
  /\ UNCHANGED <<beamVars, depVars, response, handlerVars>>

\* line 230: logging_server.stop(0); run() returns or the exception goes on
Stop(w) ==
  /\ worker[w].pc = "stop"
  /\ worker' = [worker EXCEPT
                  ![w].logging_server = "stopped",
                  ![w].pc = IF worker[w].raised = "none"
                              THEN "returned" ELSE "raised"]
  /\ UNCHANGED SUBPROCESS_LOCK
  /\ UNCHANGED <<beamVars, depVars, response, handlerVars>>

\* ------------------------------------- several Jobs on the root logger
\* log calls made
MaxLogCalls == 3

Jobs == {1, 2}

\* the background thread of Job j, and a thread that runs no Job
BgOf(j) == <<"bg", j>>

ANOTHER == <<"other", 0>>

\* a Job before run(): its background thread, its JobLogHandler, its cache
NewJob ==
  [pc |-> "not_started", logged_thread |-> NoThread, last_id |-> 0,
   cache |-> <<>>]

\* lines 289, 432: _run_job enters the with statement; __enter__ remembers
\* the current thread
EnterBind(j) ==
  /\ jobs[j].pc = "not_started"
  /\ jobs' = [jobs EXCEPT ![j].logged_thread = BgOf(j),
                          ![j].pc = "add_handler"]
  /\ UNCHANGED <<root_handlers, emitted>>
  /\ UNCHANGED <<beamVars, depVars, response, workerVars>>

\* line 433: the handler is added to the root logger
AddHandler(j) ==
  /\ jobs[j].pc = "add_handler"
  /\ root_handlers' = root_handlers \cup {j}
  /\ jobs' = [jobs EXCEPT ![j].pc = "running"]
  /\ UNCHANGED emitted
  /\ UNCHANGED <<beamVars, depVars, response, workerVars>>

\* mutant of captures: the handler takes the records of every thread
captures_all(h, t) == TRUE

\* line 445: the handler takes a record only from the thread it remembers
captures(h, t) == h.logged_thread = t

\* JobLogHandler.emit of Job j's handler for a record of thread t
emit_of(h, t, importance) ==
  IF captures(h, t)
    THEN [h EXCEPT !.last_id = @ + 1,
                   !.cache = put_cache(@, JobMessage(str(h.last_id + 1),
                                                     importance))]
    ELSE h

\* thread t can log: it is the thread of a Job inside the with block, or
\* a thread that runs no Job
CanLog(t) == t = ANOTHER \/ \E j \in Jobs : t = BgOf(j) /\ jobs[j].pc = "running"

\* a log call on thread t: the logging module hands the record to every
\* handler on the root logger
LogCall(t, importance) ==
  /\ CanLog(t)
  /\ emitted.n < MaxLogCalls
  /\ emitted' = [thread |-> t, importance |-> importance, n |-> emitted.n + 1]
  /\ jobs' = [j \in Jobs |->
               IF j \in root_handlers THEN emit_of(jobs[j], t, importance)
                                      ELSE jobs[j]]
  /\ UNCHANGED root_handlers
  /\ UNCHANGED <<beamVars, depVars, response, workerVars>>

\* lines 437-438, __exit__: the with block is left, by return or by an
\* exception; the binding is released. close() leaves the handler on the
\* root logger.
ExitRelease(j) ==
  /\ jobs[j].pc = "running"
  /\ \E how \in {"returned", "raised"} :
       jobs' = [jobs EXCEPT ![j].logged_thread = NoThread, ![j].pc = how]
  /\ UNCHANGED <<root_handlers, emitted>>
  /\ UNCHANGED <<beamVars, depVars, response, workerVars>>

\* ------------------------------------------------------ the specification
\* the state after BeamJob.__init__, JobLogQueues.__init__ and
\* JobLogHandler.__init__; no thread has called anything yet
JobInitAt(start, cancellers, subscribers) ==
  /\ state_history = <<>>
  /\ state = "UNSET"
  /\ state_queues = <<>>
  /\ log_queues = <<>>
  /\ cache = <<>>
  /\ last_id = 0
  /\ logged_thread = NoThread
  /\ result = "None"
  /\ queue = [s \in Subscribers |-> <<>>]
  /\ head = [s \in Subscribers |-> 0]
  /\ snap = [s \in Subscribers |-> <<>>]
  /\ snapPos = [s \in Subscribers |-> 0]
  /\ pc = [t \in Threads |->
             IF t = BG THEN "not_started"
             ELSE IF t = RUN THEN start
             ELSE IF t \in cancellers \cup subscribers THEN "idle"
             ELSE "absent"]
  /\ ss = [t \in Callers |-> NoCall]
  /\ msg = JobMessage(str(0), 0)
  /\ outcome = [deps |-> "none", merge |-> "none", engine |-> "none"]
  /\ t0 = [t \in Cancellers |-> 0]

\* a pipeline that defines no environment: nothing to extract or resolve
NoEnvironments ==
  /\ envs = <<>>
  /\ dependency_sets = extract_dependency_sets(<<>>)
  /\ resolved = <<>>

\* no GetJobMetrics request has been served
NoRequests == response = NoResponse

\* no worker has been launched
NoWorkers ==
  /\ worker = [w \in Workers |-> NotLaunched]
  /\ SUBPROCESS_LOCK = NoWorker

\* no further Job exists and nothing has been logged
NoOtherJobs ==
  /\ jobs = [j \in Jobs |-> NewJob]
  /\ root_handlers = {}
  /\ emitted = [thread |-> NoThread, importance |-> 0, n |-> 0]

InitWith(cancellers, subscribers) ==
  /\ JobInitAt("idle", cancellers, subscribers)
  /\ NoEnvironments
  /\ NoRequests
  /\ NoWorkers
  /\ NoOtherJobs

SetState == \E t \in Callers : SetStateBase(t) \/ SetStateFanout(t)

Run == run(RUN) \/ StartThread(RUN)

RunJob ==
  \/ Enter(BG)
  \/ UpdateDependencies(BG)
  \/ Merge(BG)
  \/ RunViaRunnerApi(BG)
  \/ WaitUntilFinish(BG)
  \/ Completed(BG)
  \/ Except(BG)
  \/ LogException(BG)
  \/ Exit(BG)

Cancel == \E t \in Cancellers : cancel(t) \/ Cancel2(t) \/ CancelReturn(t)

Stream ==
  \E s \in Subscribers :
    \/ GetStateStream(s)
    \/ GetMessageStream(s)
    \/ RegisterState(s)
    \/ CacheSnapshot(s)
    \/ WithStateHistory(s)
    \/ Yield(s)

Next == SetState \/ Run \/ RunJob \/ Cancel \/ Stream

\* one Job with run(), one cancel() call and one stream, all concurrent
Init == InitWith({<<"cancel", 1>>}, {<<"sub", 1>>})

Spec == Init /\ [][Next]_vars

\* one Job with run() and concurrent cancel() calls, no stream
CancelInit == InitWith(Cancellers, {})

CancelNext == SetState \/ Run \/ RunJob \/ Cancel

CancelSpec == CancelInit /\ [][CancelNext]_vars

\* one Job with run() and one stream, cancel() never called, under fair
\* scheduling: a thread that can take a step eventually takes one. Calling
\* run() and opening a stream are left to the clients.
FairInit == InitWith({}, {<<"sub", 1>>})

FairNext == SetState \/ Run \/ RunJob \/ Stream

StreamProgress(s) ==
  RegisterState(s) \/ CacheSnapshot(s) \/ WithStateHistory(s) \/ Yield(s)

FairSpec ==
  /\ FairInit
  /\ [][FairNext]_vars
  /\ WF_vars(SetState)
  /\ WF_vars(StartThread(RUN))
  /\ WF_vars(RunJob)
  /\ \A s \in Subscribers : WF_vars(StreamProgress(s))

\* ------------------------------------------------- set_state called directly
\* the states that the direct calls ask for
RequestedStates == {"RUNNING", "DONE"}

\* a request thread calls set_state(new_state) and returns to idle
AnySetState(t) ==
  /\ pc[t] = "idle"
  /\ Len(state_history) < MaxHistory
  /\ \E new_state \in RequestedStates : Call(t, new_state, "idle")
  /\ UNCHANGED <<state_history, state, state_queues, result, outcome, t0,
                 logVars, logged_thread, subVars>>
  /\ UNCHANGED extVars

\* any sequence of set_state calls from two threads, with state streams
SetStateInit == InitWith(Cancellers, Subscribers)

SetStateNext ==
  \/ \E t \in Cancellers : AnySetState(t)
  \/ SetState
  \/ \E s \in Subscribers :
       GetStateStream(s) \/ WithStateHistory(s) \/ Yield(s)

SetStateSpec == SetStateInit /\ [][SetStateNext]_vars

\* ------------------------------------------------------- the log fan-out
\* the logging module hands a record of thread t to the handler: code that
\* runs on t (the engine, while _run_job waits for it) logs at some level
Log(t, importance) ==
  /\ pc[t] = "wait_until_finish"
  /\ last_id < MaxPuts
  /\ emit(t, importance)
  /\ UNCHANGED <<jobVars, log_queues, logged_thread, head, snap, snapPos, pc>>
  /\ UNCHANGED extVars

\* the Job is RUNNING and its background thread waits for the engine, which
\* has logged records of the importances in logged (fewer than the cache
\* takes) and goes on logging; the subscribers have not yet opened their
\* streams
RunningInit(subscribers, logged) ==
  /\ state_history = <<[state |-> "STARTING", ts |-> 1, by |-> RUN],
                       [state |-> "RUNNING", ts |-> 2, by |-> BG]>>
  /\ state = "RUNNING"
  /\ state_queues = <<>>
  /\ log_queues = <<>>
  /\ cache = [i \in 1..Len(logged) |-> JobMessage(str(i), logged[i])]
  /\ last_id = Len(logged)
  /\ logged_thread = BG
  /\ result = "handle"
  /\ queue = [s \in Subscribers |-> <<>>]
  /\ head = [s \in Subscribers |-> 0]
  /\ snap = [s \in Subscribers |-> <<>>]
  /\ snapPos = [s \in Subscribers |-> 0]
  /\ pc = [t \in Threads |->
             IF t = BG THEN "wait_until_finish"
             ELSE IF t = RUN THEN "returned"
             ELSE IF t \in subscribers THEN "idle"
             ELSE "absent"]
  /\ ss = [t \in Callers |-> NoCall]
  /\ msg = IF logged = <<>> THEN JobMessage(str(0), 0)
           ELSE JobMessage(str(Len(logged)), Last(logged))
  /\ outcome = [deps |-> "ok", merge |-> "ok", engine |-> "invoked"]
  /\ t0 = [t \in Cancellers |-> 0]
  /\ NoEnvironments
  /\ NoRequests
  /\ NoWorkers
  /\ NoOtherJobs

\* no stream is open
LogInit == RunningInit({}, <<>>)

LogNext == \E importance \in Levels : Log(BG, importance)

LogSpec == LogInit /\ [][LogNext]_vars

\* ------------------------------------------ the log fan-out with a stream
\* the importances the engine logs with while a message stream is served
FanoutLevels == {JOB_MESSAGE_BASIC, JOB_MESSAGE_ERROR}

\* records logged before the subscription is opened
LoggedBefore == 9

\* one get_message_stream subscription, opened at any moment after the
\* engine has logged some records
FanoutInit ==
  \E logged \in [1..LoggedBefore -> FanoutLevels] :
    RunningInit({<<"sub", 1>>}, logged)

MessageStream(s) ==
  \/ GetMessageStream(s)
  \/ RegisterState(s)
  \/ CacheSnapshot(s)
  \/ WithStateHistory(s)
  \/ Yield(s)

FanoutNext ==
  \/ \E importance \in FanoutLevels : Log(BG, importance)
  \/ \E s \in Subscribers : MessageStream(s)

FanoutSpec == FanoutInit /\ [][FanoutNext]_vars

\* ------------------------------------------- the dependency resolution
\* a pipeline with an environment under every id; create_beam_job has not
\* yet been called; no cancel(), no stream
DepsInit ==
  /\ JobInitAt("create_beam_job", {}, {})
  /\ envs \in [EnvIds -> Environments]
  /\ dependency_sets = <<>>
  /\ resolved = <<>>
  /\ NoRequests
  /\ NoWorkers
  /\ NoOtherJobs

DepsNext == create_beam_job(RUN) \/ SetState \/ Run \/ RunJob

DepsSpec == DepsInit /\ [][DepsNext]_vars

\* ------------------------------------------------- the metrics requests
\* the Job has been created; run() and GetJobMetrics requests in any order
MetricsInit == InitWith({}, {})

MetricsNext == SetState \/ Run \/ RunJob \/ GetJobMetrics(METRICS)

MetricsSpec == MetricsInit /\ [][MetricsNext]_vars

\* -------------------------------------------------- the worker launches
\* two threads each launch one worker
WorkerInit == InitWith({}, {})

Launch(w) ==
  \/ StartLoggingServer(w)
  \/ Acquire(w)
  \/ Popen(w)
  \/ Release(w)
  \/ ChildExits(w)
  \/ Wait(w)
  \/ Poll(w)
  \/ Kill(w)
  \/ Stop(w)

WorkerNext == \E w \in Workers : Launch(w)

WorkerSpec == WorkerInit /\ [][WorkerNext]_vars

\* ------------------------------------------------- the concurrent Jobs
\* the threads that log
Loggers == {BgOf(j) : j \in Jobs} \cup {ANOTHER}

\* two Jobs run their background sequences while three threads log
HandlerInit == InitWith({}, {})

HandlerNext ==
  \/ \E j \in Jobs : EnterBind(j) \/ AddHandler(j) \/ ExitRelease(j)
  \/ \E t \in Loggers, importance \in FanoutLevels : LogCall(t, importance)

HandlerSpec == HandlerInit /\ [][HandlerNext]_vars

\* ------------------------------------------------------------------ claims
\* how often item e occurs in the sequence q
Count(q, e) == Cardinality({i \in 1..Len(q) : q[i] = e})

\* the state events among the items of q, in order
StateEvents(q) == SelectSeq(q, LAMBDA x : x.kind = "state")

\* thread t leaves the first statement of set_state in this step
BaseStep(t) == pc[t] = "set_state" /\ pc'[t] # "set_state"

\* C5, first half: a set_state whose new_state is the current state leaves
\* the history, the current state and every queue as they are and returns
\* without entering the fan-out.
C5_NoOp ==
  \A t \in Callers :
    (BaseStep(t) /\ ss[t].new = state) =>
      /\ state_history' = state_history
      /\ state' = state
      /\ queue' = queue
      /\ pc'[t] = ss[t].ret

\* C5, second half, the history: a set_state whose new_state differs appends
\* exactly one entry (new_state, timestamp) and makes new_state current.
C5_Record ==
  \A t \in Callers :
    (BaseStep(t) /\ ss[t].new # state) =>
      /\ Len(state_history') = Len(state_history) + 1
      /\ SubSeq(state_history', 1, Len(state_history)) = state_history
      /\ Last(state_history').state = ss[t].new
      /\ state' = ss[t].new
      /\ ss'[t].ts = Last(state_history').ts
      /\ pc'[t] = "fanout"

\* C5, second half, the queues: while the fan-out of a call runs, the queues
\* the loop has passed hold its event once and the others do not hold it; the
\* loop is left only when it has passed every registered queue; and no queue
\* ever holds a state event twice.
C5_Fanout ==
  /\ \A t \in Callers :
       pc[t] = "fanout" =>
         /\ ss[t].ix <= Len(state_queues) + 1
         /\ \A k \in 1..Len(state_queues) :
              Count(queue[state_queues[k]], StateEvent(ss[t].new, ss[t].ts))
                = IF k < ss[t].ix THEN 1 ELSE 0
  /\ \A s \in Subscribers : \A i \in 1..Len(queue[s]) :
       queue[s][i].kind = "state" => Count(queue[s], queue[s][i]) = 1

C5_Return ==
  \A t \in Callers :
    (pc[t] = "fanout" /\ pc'[t] # "fanout") =>
      /\ queue' = queue
      /\ \A k \in 1..Len(state_queues) :
           Count(queue[state_queues[k]], StateEvent(ss[t].new, ss[t].ts)) = 1

\* C5: set_state(new_state) is an idempotent guard: with new_state equal to
\* the current state nothing is recorded and nothing is put on any queue;
\* otherwise one (new_state, timestamp) entry is appended, new_state becomes
\* current and that event is put once on every registered state queue.
C5_SetStateGuard ==
  /\ []C5_Fanout
  /\ [][C5_NoOp /\ C5_Record /\ C5_Return]_vars

\* C5 witness: one call has recorded a transition and put its event on two
\* registered queues, and a later call asked for the state that was current
\* and returned with the history unchanged.
C5_Witness ==
  /\ Len(state_history) = 1
  /\ Len(state_queues) = 2
  /\ \A s \in Subscribers :
       Count(queue[s], StateEvent(state, state_history[1].ts)) = 1
  /\ \E t \in Cancellers : pc[t] = "set_state" /\ ss[t].new = state
  /\ \E t \in Cancellers : pc[t] = "idle" /\ state_history[1].by = t


\* the entries of the history that thread t recorded, as states
Appended(t) ==
  HistoryStates(SelectSeq(state_history, LAMBDA e : e.by = t))

\* a cancel() call of thread t found the Job RUNNING and recorded CANCELLING
\* and CANCELLED as entries k and k + 1 of the history
CancelledWhileRunning(t, k) ==
  /\ k >= 2
  /\ k + 1 <= Len(state_history)
  /\ state_history[k - 1].state = "RUNNING"
  /\ state_history[k].by = t
  /\ state_history[k].state = "CANCELLING"
  /\ state_history[k + 1].by = t
  /\ state_history[k + 1].state = "CANCELLED"

\* C1: once the current state of the Job is terminal, nothing more is
\* appended to the state history or pushed as a state event; stated here for
\* the case the claim names: after a cancel() that found the Job RUNNING has
\* recorded CANCELLING, CANCELLED, the history ends with these two entries
\* and stays so, also after the background sequence has seen the engine
\* finish or raise.
C1_CancelledStays ==
  \A t \in Cancellers : \A k \in 1..Len(state_history) :
    CancelledWhileRunning(t, k) => Len(state_history) = k + 1


\* an external call of the background sequence raised (a timeout of the
\* dependency resolution is not counted: it is swallowed)
Raised ==
  \/ outcome.deps = "error"
  \/ outcome.merge = "error"
  \/ outcome.engine = "raised"

\* the error-importance records in the log cache. Under Spec fewer than
\* CacheSize records are ever put, so the cache holds every record put.
ErrorRecords ==
  {i \in 1..Len(cache) : cache[i].importance = JOB_MESSAGE_ERROR}

\* C2: any exception raised in the background sequence started by run()
\* (dependency resolution other than a timeout, environment normalization,
\* engine invocation, waiting for the engine) has an error-importance log
\* record published and the state set to FAILED before the sequence ends.
C2_ExceptionFails ==
  (pc[BG] = "done" /\ Raised) =>
    /\ ErrorRecords # {}
    /\ \E k \in 1..Len(state_history) :
         state_history[k].state = "FAILED" /\ state_history[k].by = BG

\* s is a prefix of t
IsPrefix(s, t) == Len(s) <= Len(t) /\ SubSeq(t, 1, Len(s)) = s

\* the history events up to and including the first terminal one
UpToTerminal(h) == SubSeq(HistoryEvents(h), 1, ReplayLen(HistoryEvents(h)))

\* C3: whatever the interleaving of a get_state_stream() subscription with
\* set_state calls of other threads, the events the subscriber yields are
\* the state history up to and including its first terminal entry: each
\* transition once, none twice, earlier history before newer events.
C3_StreamIsHistory ==
  \A s \in Subscribers :
    s \notin Range(log_queues) =>
      /\ IsPrefix(Yielded(s), UpToTerminal(state_history))
      /\ pc[s] = "done" => Yielded(s) = UpToTerminal(state_history)

\* the thread that recorded the history entry behind state event e
Recorder(e) == state_history[e.ts].by

\* C4: when cancel() runs concurrently with the transitions of the
\* background sequence, every registered queue receives their state events
\* in the order in which they were appended to the history, and all queues
\* receive the same order.
C4_QueuesInHistoryOrder ==
  \A s \in Subscribers :
    LET q == SelectSeq(StateEvents(queue[s]),
                       LAMBDA e : Recorder(e) \in {BG} \cup Cancellers)
    IN /\ \A i, j \in 1..Len(q) : i < j => q[i].ts < q[j].ts
       /\ \A r \in Subscribers :
            LET p == SelectSeq(StateEvents(queue[r]),
                               LAMBDA e : Recorder(e) \in {BG} \cup Cancellers)
            IN \A i, j \in 1..Len(q) : \A m, n \in 1..Len(p) :
                 (i < j /\ q[i] = p[n] /\ q[j] = p[m]) => n < m

\* cancel() has not been called
NoCancel == \A t \in Cancellers : pc[t] \in {"idle", "absent"}

\* the state event of FAILED is among the items
HasFailed(items) ==
  \E i \in 1..Len(items) :
    items[i].kind = "state" /\ items[i].state = "FAILED"

\* C7: with run() called once and cancel() never, when dependency resolution
\* succeeds or times out and the engine reports success, the history is
\* exactly STARTING, RUNNING, DONE: STARTING is recorded inside run() before
\* it returns (and before the background thread exists), RUNNING just before
\* the engine is invoked, DONE only after wait_until_finish has returned.
C7_StartingRunningDone ==
  NoCancel =>
    /\ pc[RUN] \in {"start_thread", "returned"} =>
         /\ state_history # <<>>
         /\ state_history[1].state = "STARTING"
         /\ state_history[1].by = RUN
    /\ pc[BG] \in {"enter", "update_dependencies", "merge"} =>
         HistoryStates(state_history) = <<"STARTING">>
    /\ pc[BG] \in {"run_via_runner_api", "wait_until_finish", "completed"} =>
         HistoryStates(state_history) = <<"STARTING", "RUNNING">>
    /\ (\E k \in 1..Len(state_history) : state_history[k].state = "DONE") =>
         /\ outcome.engine = "done"
         /\ pc[BG] \in {"fanout", "exit", "done"}
    /\ (/\ pc[BG] = "done"
        /\ outcome.deps \in {"ok", "timeout"}
        /\ outcome.engine = "done") =>
         HistoryStates(state_history) = <<"STARTING", "RUNNING", "DONE">>

\* C7 witness: the background sequence has ended after a timed-out
\* dependency resolution and a successful engine run, cancel() was never
\* called, and the history is STARTING, RUNNING, DONE.
C7_Witness ==
  /\ NoCancel
  /\ pc[BG] = "done"
  /\ pc[RUN] = "returned"
  /\ outcome.deps = "timeout"
  /\ outcome.engine = "done"
  /\ HistoryStates(state_history) = <<"STARTING", "RUNNING", "DONE">>

\* C8: when the engine raises (and cancel() is not called) the history is
\* STARTING, RUNNING, FAILED, exactly one ERROR-importance record is
\* published to the log fan-out, and get_message_stream ends right after
\* the FAILED state event.
C8_EngineRaises ==
  (NoCancel /\ outcome.engine = "raised") =>
    /\ pc[BG] = "done" =>
         /\ HistoryStates(state_history) = <<"STARTING", "RUNNING", "FAILED">>
         /\ Cardinality(ErrorRecords) = 1
    /\ \A s \in Subscribers :
         (s \in Range(log_queues) /\ HasFailed(Yielded(s))) =>
           /\ pc[s] = "done"
           /\ Last(Yielded(s)).state = "FAILED"


\* the state that the cancel() call of thread t found
Seen(t) == IF t0[t] = 0 THEN "UNSET" ELSE state_history[t0[t]].state

\* another cancel() call recorded a transition after the call of t began
Overlapped(t) ==
  \E k \in (t0[t] + 1)..Len(state_history) :
    state_history[k].by \in Cancellers \ {t}

\* C9 as stated: a cancel() that finds a non-terminal state (the unset state
\* before run() included) appends exactly CANCELLING then CANCELLED.
C9_AppendsBoth ==
  \A t \in Cancellers :
    pc[t] = "cancelled" => Appended(t) = <<"CANCELLING", "CANCELLED">>

\* thread t takes the first step of cancel()
CancelStep(t) == pc[t] = "idle" /\ pc'[t] # "idle"

\* C9, terminal case: cancel() on a Job whose state is terminal changes
\* nothing: no history entry, no event on any queue, the state unchanged.
C9_TerminalNoOp ==
  \A t \in Cancellers :
    (CancelStep(t) /\ is_terminal_state(state)) =>
      /\ pc'[t] = "skipped"
      /\ UNCHANGED <<state_history, state, queue, ss, state_queues>>

\* C9, other states: the call goes on to set_state(CANCELLING)
C9_NonTerminalActs ==
  \A t \in Cancellers :
    (CancelStep(t) /\ ~is_terminal_state(state)) =>
      /\ pc'[t] = "set_state"
      /\ ss'[t].new = "CANCELLING"

\* C9, frame: no step of a cancel() call touches the run() caller, the
\* background sequence, its result or its log handler.
C9_Frame ==
  (\E t \in Cancellers : pc'[t] # pc[t]) =>
    /\ pc'[BG] = pc[BG]
    /\ pc'[RUN] = pc[RUN]
    /\ UNCHANGED <<outcome, result, logged_thread, logVars>>

\* C9, what a finished call has appended: nothing if it found a terminal
\* state; otherwise CANCELLING then CANCELLED, both, unless the state it
\* found was CANCELLING or another cancel() call recorded a transition while
\* it ran, and then those of the two that were not already current.
C9_Appended ==
  \A t \in Cancellers :
    /\ pc[t] = "skipped" => Appended(t) = <<>>
    /\ pc[t] = "cancelled" =>
         /\ Appended(t) \in {<<"CANCELLING", "CANCELLED">>, <<"CANCELLING">>,
                             <<"CANCELLED">>, <<>>}
         /\ (Seen(t) # "CANCELLING" /\ ~Overlapped(t)) =>
              Appended(t) = <<"CANCELLING", "CANCELLED">>

\* C9 (amended): cancel() on a terminal Job changes nothing; cancel() on a
\* non-terminal Job, the unset state before run() included, calls
\* set_state(CANCELLING) and set_state(CANCELLED) and so appends exactly
\* CANCELLING then CANCELLED unless cancel() calls overlap; it never stops
\* or prevents the background run sequence.
C9_Cancel ==
  /\ []C9_Appended
  /\ [][C9_TerminalNoOp /\ C9_NonTerminalActs /\ C9_Frame]_vars

\* C9 witness: one cancel() call that began in the unset state before run()
\* has appended CANCELLING, CANCELLED, a second call has found the terminal
\* state and skipped, and the background sequence has run to its end.
C9_Witness ==
  /\ pc[<<"cancel", 1>>] = "cancelled"
  /\ t0[<<"cancel", 1>>] = 0
  /\ Appended(<<"cancel", 1>>) = <<"CANCELLING", "CANCELLED">>
  /\ pc[<<"cancel", 2>>] = "skipped"
  /\ is_terminal_state(Seen(<<"cancel", 2>>))
  /\ pc[BG] = "done"


\* the lowest importance among the records of cache c
MinImportance(c) == Min({c[i].importance : i \in 1..Len(c)})

\* C10: cache admission of JobLogQueues.put. Below 10 cached records the new
\* record is appended. At 10, a record below the cached minimum importance
\* leaves the cache unchanged; a record at or above it is kept at the end of
\* the cache and exactly one record is evicted, the first in cache order
\* whose importance is that minimum, the others keeping their order.
C10_PutStep ==
  (last_id' = last_id + 1) =>
    /\ msg'.id = str(last_id')
    /\ Len(cache) < CacheSize => cache' = Append(cache, msg')
    /\ (Len(cache) = CacheSize /\ msg'.importance < MinImportance(cache)) =>
         cache' = cache
    /\ (Len(cache) = CacheSize /\ msg'.importance >= MinImportance(cache)) =>
         /\ Len(cache') = CacheSize
         /\ Last(cache') = msg'
         /\ \E k \in 1..CacheSize :
              /\ cache[k].importance = MinImportance(cache)
              /\ \A j \in 1..(k - 1) :
                   cache[j].importance # MinImportance(cache)
              /\ SubSeq(cache', 1, CacheSize - 1) = RemoveAt(cache, k)

C10_CacheAdmission == [][C10_PutStep]_vars

\* C10 witness: the cache is full, the record just put has the minimum
\* importance of the cache and is its last entry, and the record evicted
\* for it was not the oldest one, which is still cached.
C10_Witness ==
  /\ Len(cache) = CacheSize
  /\ last_id = CacheSize + 1
  /\ Last(cache) = msg
  /\ msg.id = str(last_id)
  /\ msg.importance = MinImportance(cache)
  /\ cache[1].id = str(1)
  /\ cache[1].importance > msg.importance


\* no subscriber has yielded anything after a terminal state event, and one
\* that found a terminal event in its replay is not waiting on its queue
C6_EndsAtTerminal ==
  \A s \in Subscribers :
    /\ \A i \in 1..(Len(Yielded(s)) - 1) : ~stream_ends(Yielded(s)[i])
    /\ pc[s] = "iterate" =>
         \A i \in 1..Len(snap[s]) : ~stream_ends(snap[s][i])

\* C6: after run() has been called, every get_state_stream() and
\* get_message_stream() subscriber eventually yields a terminal state event
\* and ends (under fair scheduling, every external call of the background
\* sequence returning or raising); a subscriber started when the Job is
\* already terminal ends after the replay without waiting on its queue, and
\* none yields anything after the first terminal event it yields.
C6_StreamsEnd ==
  /\ []C6_EndsAtTerminal
  /\ \A s \in Subscribers :
       (pc[RUN] # "idle" /\ pc[s] \notin {"idle", "absent"})
         ~> (pc[s] = "done")


\* C11, the steps: append and cache calls leave the cache as it is; once the
\* cache holds 10 records every step leaves it with 10 records and with a
\* minimum importance that is not lower than before.
C11_Step ==
  /\ (log_queues' # log_queues \/ snap' # snap) => cache' = cache
  /\ Len(cache) = CacheSize =>
       /\ Len(cache') = CacheSize
       /\ MinImportance(cache') >= MinImportance(cache)

\* C11: whatever put, append and cache calls are made on a JobLogQueues, its
\* cache never holds more than 10 records; once it holds 10 it holds exactly
\* 10 for ever and its minimum cached importance never decreases.
C11_CacheBounded ==
  /\ [](Len(cache) <= CacheSize)
  /\ [][C11_Step]_vars

\* C11 witness: a subscriber has registered its queue and taken its snapshot
\* while records were put; the full cache evicted its last low record for
\* record 11 and then refused record 12, which is of lower importance.
C11_Witness ==
  /\ Len(cache) = CacheSize
  /\ last_id = CacheSize + 2
  /\ msg.id = str(last_id)
  /\ msg.importance < MinImportance(cache)
  /\ msg \notin Range(cache)
  /\ \E i \in 1..Len(cache) : cache[i].id = str(CacheSize + 1)
  /\ \E s \in Subscribers :
       /\ s \in Range(log_queues)
       /\ pc[s] = "iterate"
       /\ Len(snap[s]) > CacheSize


\* the log records among the items of q, in order
LogRecords(q) == SelectSeq(q, LAMBDA x : x.kind = "log")

\* the number that the decimal digits ds denote
RECURSIVE IdValue(_)
IdValue(ds) ==
  IF ds = <<>> THEN 0
  ELSE 10 * IdValue(SubSeq(ds, 1, Len(ds) - 1)) + ds[Len(ds)]

\* C12: whatever the interleaving of a get_message_stream() subscription
\* (register the queue, take the cache snapshot, read the queue) with put
\* calls, the subscriber yields each log record at most once, and every
\* record it yields from its queue was put after every record it yields from
\* the snapshot.
C12_SnapshotBeforeLive ==
  \A s \in Subscribers :
    LET replayed == LogRecords(SubSeq(snap[s], 1, snapPos[s]))
        live == LogRecords(SubSeq(queue[s], 1, head[s]))
        yielded == replayed \o live
    IN /\ \A i, j \in 1..Len(yielded) : i < j => yielded[i] # yielded[j]
       /\ \A i \in 1..Len(replayed) : \A j \in 1..Len(live) :
            IdValue(replayed[i].id) < IdValue(live[j].id)


\* the step in which _update_dependencies rewrites the environments
UpdateStep == outcome.deps = "none" /\ outcome'.deps = "ok"

\* C13: the dependency round trip. When the sets handed to
\* _update_dependency_sets are the sets _extract_dependency_sets yields for
\* the same environments, every environment is left as it was: composite
\* or not, the same alternatives in the same order, the same dependency
\* list for each.
C13_RoundTrip ==
  [][(UpdateStep /\ resolved' = extract_dependency_sets(envs)) =>
       envs' = envs]_vars


\* the step in which create_beam_job extracts the dependency sets
ExtractStep == pc[RUN] = "create_beam_job" /\ pc'[RUN] # "create_beam_job"

\* C14, extract: one entry per concrete alternative, keyed (env_id, i) with
\* i from 0 in expansion order, holding that alternative's dependency list;
\* a non-composite environment has the single key (env_id, 0).
C14_Extract ==
  ExtractStep =>
    /\ \A k \in DOMAIN dependency_sets' :
         /\ k[1] \in DOMAIN envs
         /\ k[2] \in 0..(Len(expand_anyof_environments(envs[k[1]])) - 1)
    /\ \A env_id \in DOMAIN envs :
         LET alts == expand_anyof_environments(envs[env_id])
         IN /\ \A i \in 1..Len(alts) :
                 /\ <<env_id, i - 1>> \in DOMAIN dependency_sets'
                 /\ dependency_sets'[<<env_id, i - 1>>] = alts[i].dependencies
            /\ envs[env_id].urn # ANYOF =>
                 {k \in DOMAIN dependency_sets' : k[1] = env_id}
                   = {<<env_id, 0>>}

\* C14, update: the keys looked up are the keys extracted; every environment
\* keeps its alternatives in their order, alternative i now carrying exactly
\* the list resolved for (env_id, i); with two or more alternatives the
\* environment is a composite of them again.
C14_Update ==
  UpdateStep =>
    /\ DOMAIN resolved' = DOMAIN dependency_sets
    /\ DOMAIN envs' = DOMAIN envs
    /\ \A env_id \in DOMAIN envs :
         LET old == expand_anyof_environments(envs[env_id])
             new == expand_anyof_environments(envs'[env_id])
         IN /\ Len(new) = Len(old)
            /\ \A i \in 1..Len(old) :
                 /\ new[i].urn = old[i].urn
                 /\ new[i].dependencies = resolved'[<<env_id, i - 1>>]
            /\ Len(old) >= 2 =>
                 /\ envs'[env_id].urn = ANYOF
                 /\ envs'[env_id].environments = new

\* C14: _extract_dependency_sets emits exactly one entry per concrete
\* alternative under the key (env_id, i), i = 0..n-1 in expansion order, and
\* _update_dependency_sets looks up exactly those keys in that order, so that
\* alternative i of a rebuilt composite carries resolved[(env_id, i)] and no
\* list is written to another alternative or environment.
C14_KeysLineUp == [][C14_Extract /\ C14_Update]_vars

\* C14 witness: after the update the composite e1 has its two alternatives
\* in their order, each with the file staged for its own key, while e2 has
\* the deferred list that was resolved to itself.
C14_Witness ==
  /\ outcome.deps = "ok"
  /\ envs["e1"].urn = ANYOF
  /\ Len(envs["e1"].environments) = 2
  /\ envs["e1"].environments[1].urn = ConcreteUrn(1)
  /\ envs["e1"].environments[1].dependencies = <<File(<<"e1", 0>>)>>
  /\ envs["e1"].environments[2].urn = ConcreteUrn(2)
  /\ envs["e1"].environments[2].dependencies = <<File(<<"e1", 1>>)>>
  /\ envs["e2"].urn # ANYOF
  /\ envs["e2"].dependencies = <<Deferred("a"), Deferred("b")>>


\* the step in which resolved_deps times out, and the one in which it raises
\* something else
TimeoutStep == outcome.deps = "none" /\ outcome'.deps = "timeout"

ErrorStep == outcome.deps = "none" /\ outcome'.deps = "error"

\* the background thread has recorded state st
RecordedByBG(st) ==
  \E k \in 1..Len(state_history) :
    state_history[k].state = st /\ state_history[k].by = BG

\* C15, the steps: a timeout changes no environment, no history entry and no
\* log record and lets _run_job go on with its next statement; any other
\* failure leaves _run_job; the environments change in no step but a
\* successful update.
C15_Steps ==
  /\ TimeoutStep =>
       /\ envs' = envs
       /\ state_history' = state_history
       /\ cache' = cache
       /\ pc'[BG] = "merge"
  /\ ErrorStep => pc'[BG] = "exit"
  /\ envs' # envs => UpdateStep

\* C15, after a timeout: once the environments are merged the sequence calls
\* set_state(RUNNING) and then invokes the engine; FAILED is recorded only
\* if the engine raised or reported failure.
C15_AfterTimeout ==
  outcome.deps = "timeout" =>
    /\ outcome.merge = "ok" =>
         \/ pc[BG] = "set_state" /\ ss[BG].new = "RUNNING"
         \/ RecordedByBG("RUNNING")
    /\ (outcome.merge = "ok" /\ ss[BG].new # "RUNNING") =>
         pc[BG] = "run_via_runner_api" \/ outcome.engine # "none"
    /\ RecordedByBG("FAILED") => outcome.engine \in {"raised", "failed"}

\* C15: a timeout of the dependency resolution is swallowed: no environment
\* is modified, the Job does not become FAILED because of it, and the
\* sequence goes on to the RUNNING transition and the engine invocation; a
\* resolution failure that is not a timeout propagates out of the
\* dependency step.
C15_TimeoutSwallowed ==
  /\ []C15_AfterTimeout
  /\ [][C15_Steps]_vars

\* C15 witness: the resolution timed out for a pipeline with a composite
\* environment and deferred dependencies; the Job is RUNNING, the engine has
\* been invoked, and the environments are as they were registered.
C15_Witness ==
  /\ outcome.deps = "timeout"
  /\ pc[BG] = "wait_until_finish"
  /\ state = "RUNNING"
  /\ envs["e1"].urn = ANYOF
  /\ Len(envs["e1"].environments) = 2
  /\ envs["e2"].dependencies = <<Deferred("a"), Deferred("b")>>
  /\ dependency_sets = extract_dependency_sets(envs)


\* run() of worker w has ended, by return or by an exception
Ended(w) == worker[w].pc \in {"returned", "raised"}

\* C16: on every exit path of SubprocessSdkWorker.run (exit code 0, non-zero
\* exit code, an exception while waiting, a failure of the spawn itself) the
\* logging server that was started is stopped and no child that is alive is
\* left running; a non-zero exit code ends the call with an error carrying
\* that code, exit code 0 with a normal return.
C16_EveryExitCleansUp ==
  \A w \in Workers :
    Ended(w) =>
      /\ worker[w].logging_server = "stopped"
      /\ worker[w].p # "running"
      /\ (worker[w].raised # "wait" /\ worker[w].returncode > 0) =>
           worker[w].pc = "raised" /\ worker[w].raised = "RuntimeError"
      /\ (worker[w].raised # "wait" /\ worker[w].returncode = 0) =>
           worker[w].pc = "returned"


\* the step in which a GetJobMetrics request is served
MetricsStep == response'.calls = response.calls + 1

\* C17, the request: it changes nothing of the Job; an unregistered job_id
\* fails with LookupError; a registered Job without result gets an empty
\* list without the engine being asked; otherwise the response holds the
\* user metrics of the engine's monitoring data, in order, and nothing else.
C17_Step ==
  MetricsStep =>
    /\ UNCHANGED <<beamVars, depVars>>
    /\ response'.job_id \notin RegisteredJobs =>
         /\ response'.error = "LookupError"
         /\ response'.committed = <<>>
    /\ response'.job_id \in RegisteredJobs =>
         /\ response'.error = "None"
         /\ result = "None" =>
              response'.committed = <<>> /\ response'.engine = <<>>
         /\ result # "None" =>
              /\ response'.committed =
                   SelectSeq(response'.engine, LAMBDA x : x = USER_INFO)
              /\ \A i \in 1..Len(response'.committed) :
                   response'.committed[i] \notin {SYSTEM_INFO}

\* C17, when there is no result: before run(), while the Job is STARTING,
\* and until the engine invocation has returned.
C17_NoResultYet ==
  (\/ pc[RUN] = "idle"
   \/ state \in {"UNSET", "STARTING"}
   \/ pc[BG] = "run_via_runner_api"
   \/ outcome.engine = "none") => result = "None"

\* C17: GetJobMetrics fails with a not-found error for a job_id that is not
\* registered and changes no state; for a registered Job whose result is not
\* yet set (before run(), during STARTING, while the engine invocation has
\* not returned) it returns an empty metrics list; otherwise it returns only
\* the user-visible part of the engine's monitoring data.
C17_GetJobMetrics ==
  /\ []C17_NoResultYet
  /\ [][C17_Step]_vars

\* C17 witness: a second request was served after the engine invocation had
\* returned; the engine reported a system metric and a user metric and the
\* response holds the user metric alone.
C17_Witness ==
  /\ response.calls = 2
  /\ response.job_id \in RegisteredJobs
  /\ result = "handle"
  /\ response.engine = <<SYSTEM_INFO, USER_INFO>>
  /\ response.committed = <<USER_INFO>>


\* the step in which some thread makes a log call
LogStep == emitted'.n = emitted.n + 1

\* Job j takes the record of this step: its counter moves on and its
\* JobLogQueues gets the record
Captures(j) == jobs'[j].last_id = jobs[j].last_id + 1

\* the background sequence of Job j has left the with block
Exited(j) == jobs[j].pc \in {"returned", "raised"}

\* C18, the steps: a record logged on thread T reaches the JobLogQueues of
\* no Job but the one whose background sequence runs on T, and that one
\* only between __enter__ and __exit__; what a Job has captured changes in
\* no other step.
C18_Step ==
  \A j \in Jobs :
    /\ (LogStep /\ emitted'.thread # BgOf(j)) =>
         jobs'[j].cache = jobs[j].cache /\ jobs'[j].last_id = jobs[j].last_id
    /\ (LogStep /\ emitted'.thread = BgOf(j) /\ j \in root_handlers) =>
         /\ Captures(j)
         /\ jobs'[j].cache =
              put_cache(jobs[j].cache,
                        JobMessage(str(jobs'[j].last_id), emitted'.importance))
    /\ ~LogStep =>
         jobs'[j].cache = jobs[j].cache /\ jobs'[j].last_id = jobs[j].last_id
    /\ Exited(j) =>
         /\ jobs'[j].cache = jobs[j].cache
         /\ jobs'[j].last_id = jobs[j].last_id
         /\ jobs'[j].logged_thread = NoThread

\* C18, the binding: a handler remembers no thread but its own Job's
\* background thread, and none once that sequence has exited, by return or
\* by exception.
C18_Binding ==
  \A j \in Jobs :
    /\ jobs[j].logged_thread \in {NoThread, BgOf(j)}
    /\ Exited(j) => jobs[j].logged_thread = NoThread

\* C18: with several Jobs running concurrently, a log record emitted on
\* thread T is captured only by the Job whose background sequence runs on T
\* and never enters another Job's cache or queues; after a Job's background
\* sequence has exited, normally or by exception, that Job captures no
\* further record from any thread.
C18_OwnThreadOnly ==
  /\ []C18_Binding
  /\ [][C18_Step]_vars

\* C18 witness: both handlers are on the root logger; Job 1 has captured the
\* one record its own thread logged and has exited by an exception; since
\* then Job 2's thread and a thread that runs no Job have logged, and Job 2
\* has captured the one record of its own thread.
C18_Witness ==
  /\ root_handlers = Jobs
  /\ jobs[1].pc = "raised"
  /\ jobs[1].last_id = 1
  /\ Len(jobs[1].cache) = 1
  /\ jobs[2].pc = "running"
  /\ jobs[2].last_id = 1
  /\ Len(jobs[2].cache) = 1
  /\ emitted.n = MaxLogCalls
  /\ emitted.thread = ANOTHER


\* C19, the lock: a launch is in its spawn step only while it holds the
\* lock, so no two launches are in it at once, and a launch holds the lock
\* nowhere but in the spawn step and the release that follows it: not
\* before, and not while it waits for its child or cleans up.
C19_Lock ==
  /\ \A w \in Workers :
       /\ worker[w].pc = "popen" => SUBPROCESS_LOCK = w
       /\ SUBPROCESS_LOCK = w => worker[w].pc \in {"popen", "release"}
  /\ Cardinality({w \in Workers : worker[w].pc = "popen"}) <= 1

\* C19, the release: the step of a launch after Popen has returned or raised
\* is the release of the lock
C19_Release ==
  \A w \in Workers :
    /\ (worker[w].pc = "popen" /\ worker'[w].pc # "popen") =>
         worker'[w].pc = "release"
    /\ (worker[w].pc = "release" /\ worker'[w].pc # "release") =>
         SUBPROCESS_LOCK' = NoWorker

\* C19: two concurrent worker launches are never in their process-spawn step
\* at the same time: the step is entered only with the shared lock held and
\* the lock is released as soon as the spawn returns or fails, so that no
\* launch holds it while waiting for its child and two launches can wait
\* for their children at the same time.
C19_SpawnSerialized ==
  /\ []C19_Lock
  /\ [][C19_Release]_vars

\* C19 witness: both launches have spawned their child and wait for it, the
\* children run, and the lock is free.
C19_Witness ==
  /\ \A w \in Workers : worker[w].pc = "wait" /\ worker[w].p = "running"
  /\ SUBPROCESS_LOCK = NoWorker


\* the step in which a record is handed to JobLogQueues.put
PutStep == last_id' = last_id + 1

\* the numbers of the message ids of the log records of q, in order
LogIds(q) == [i \in 1..Len(LogRecords(q)) |-> IdValue(LogRecords(q)[i].id)]

\* C20, the steps: the record put carries the next value of the counter and
\* is appended once to every queue that is registered, whatever the cache
\* does with it, and to no other queue; no other step adds a log record to a
\* queue.
C20_Step ==
  /\ PutStep =>
       /\ msg'.id = str(last_id')
       /\ \A s \in Subscribers :
            queue'[s] = IF s \in Range(log_queues)
                          THEN Append(queue[s], msg') ELSE queue[s]
  /\ ~PutStep =>
       \A s \in Subscribers : LogRecords(queue'[s]) = LogRecords(queue[s])

\* C20, the queues: a registered queue holds the records put since it was
\* registered, in put order: their ids are consecutive, strictly increasing
\* and end with the counter's current value; a queue that is not registered
\* holds no record; every id is a value the counter has had, from 1 on.
C20_Queues ==
  /\ \A s \in Subscribers :
       LET ids == LogIds(queue[s])
       IN /\ s \notin Range(log_queues) => ids = <<>>
          /\ \A i \in 1..Len(ids) : ids[i] = last_id - Len(ids) + i
          /\ \A i \in 1..Len(ids) : ids[i] >= 1
  /\ \A i \in 1..Len(cache) : IdValue(cache[i].id) \in 1..last_id

\* C20: every record passed to JobLogQueues.put is put exactly once on every
\* queue registered before that put, whether or not the cache admitted it,
\* so a registered queue holds all records put since its registration in put
\* order, their sequence ids strictly increasing; records the cache dropped
\* or evicted are missed only by subscribers that register later.
C20_EveryRecordFannedOut ==
  /\ []C20_Queues
  /\ [][C20_Step]_vars

\* C20 witness: the registered queue holds records 11 and 12; the full cache
\* took record 11 and refused record 12.
C20_Witness ==
  /\ Len(cache) = CacheSize
  /\ last_id = CacheSize + 2
  /\ msg \notin Range(cache)
  /\ \E s \in Subscribers :
       /\ s \in Range(log_queues)
       /\ LogIds(queue[s]) = <<CacheSize + 1, CacheSize + 2>>
       /\ queue[s][Len(queue[s])] = msg
       /\ \E i \in 1..Len(cache) : cache[i] = queue[s][1]

====
